---- MODULE Spec2Model ----
(***************************************************************************)
(* The trivia engine of trivia_core.py: the round lifecycle of TriviaCore  *)
(* (handle_message under the engine lock, round completion, the next       *)
(* round, handler registration), the command table and its handlers, the   *)
(* scheduled scoreboard, and the answer matcher.                           *)
(*                                                                         *)
(* A Python str is a sequence of one-character tokens; None is "None".     *)
(***************************************************************************)
EXTENDS Naturals, Sequences, FiniteSets, TLC

None == "None"

(***************************************************************************)
(* str methods used by the matcher and the dispatcher.                     *)
(***************************************************************************)
startswith(x, a) == Len(a) <= Len(x) /\ SubSeq(x, 1, Len(a)) = a

\* Python's  s in c  on strings
contains(c, s) ==
  \E i \in 0..Len(c) : i + Len(s) <= Len(c) /\ SubSeq(c, i + 1, i + Len(s)) = s

RECURSIVE replace(_, _, _)
replace(x, a, b) ==
  IF x = <<>> THEN <<>>
  ELSE IF startswith(x, a) THEN b \o replace(SubSeq(x, Len(a) + 1, Len(x)), a, b)
  ELSE <<Head(x)>> \o replace(Tail(x), a, b)

remove(x, chars) == SelectSeq(x, LAMBDA ch : ch \notin chars)

RECURSIVE lstrip(_, _)
lstrip(x, ws) == IF x # <<>> /\ Head(x) \in ws THEN lstrip(Tail(x), ws) ELSE x

RECURSIVE rstrip(_, _)
rstrip(x, ws) ==
  IF x # <<>> /\ x[Len(x)] \in ws THEN rstrip(SubSeq(x, 1, Len(x) - 1), ws) ELSE x

strip(x, ws) == rstrip(lstrip(x, ws), ws)

\* str.strip() with no argument strips all whitespace; "TAB" is the tab character
Whitespace == {" ", "TAB"}

\* str.lower(): the upper-case letters of the modelled alphabet
lowerChar(ch) ==
  CASE ch = "P" -> "p"
    [] ch = "A" -> "a"
    [] ch = "T" -> "t"
    [] OTHER -> ch

lower(x) == [i \in 1..Len(x) |-> lowerChar(x[i])]

\* unidecode.unidecode: ASCII stays, "e_acute" is the accented letter of the alphabet
unidecodeChar(ch) == IF ch = "e_acute" THEN "e" ELSE ch

unidecode(x) == [i \in 1..Len(x) |-> unidecodeChar(x[i])]

(***************************************************************************)
(* num2words on the text of one regex match: digits, or digits, a "." or   *)
(* ",", digits.  Decimal() rejects a "," and the call raises.              *)
(***************************************************************************)
DigitChars == {"0", "1", "2", "3", "4", "5", "6", "7", "8", "9"}

DecimalDigits == <<"0", "1", "2", "3", "4", "5", "6", "7", "8", "9">>

DigitOf ==
  ("0" :> 0) @@ ("1" :> 1) @@ ("2" :> 2) @@ ("3" :> 3) @@ ("4" :> 4) @@
  ("5" :> 5) @@ ("6" :> 6) @@ ("7" :> 7) @@ ("8" :> 8) @@ ("9" :> 9)

LowWords ==
  << <<"z", "e", "r", "o">>,
     <<"o", "n", "e">>,
     <<"t", "w", "o">>,
     <<"t", "h", "r", "e", "e">>,
     <<"f", "o", "u", "r">>,
     <<"f", "i", "v", "e">>,
     <<"s", "i", "x">>,
     <<"s", "e", "v", "e", "n">>,
     <<"e", "i", "g", "h", "t">>,
     <<"n", "i", "n", "e">>,
     <<"t", "e", "n">>,
     <<"e", "l", "e", "v", "e", "n">>,
     <<"t", "w", "e", "l", "v", "e">>,
     <<"t", "h", "i", "r", "t", "e", "e", "n">>,
     <<"f", "o", "u", "r", "t", "e", "e", "n">>,
     <<"f", "i", "f", "t", "e", "e", "n">>,
     <<"s", "i", "x", "t", "e", "e", "n">>,
     <<"s", "e", "v", "e", "n", "t", "e", "e", "n">>,
     <<"e", "i", "g", "h", "t", "e", "e", "n">>,
     <<"n", "i", "n", "e", "t", "e", "e", "n">> >>
TensWords ==
  << <<"t", "w", "e", "n", "t", "y">>,
     <<"t", "h", "i", "r", "t", "y">>,
     <<"f", "o", "r", "t", "y">>,
     <<"f", "i", "f", "t", "y">>,
     <<"s", "i", "x", "t", "y">>,
     <<"s", "e", "v", "e", "n", "t", "y">>,
     <<"e", "i", "g", "h", "t", "y">>,
     <<"n", "i", "n", "e", "t", "y">> >>

RECURSIVE IntVal(_)
IntVal(ds) ==
  IF ds = <<>> THEN 0 ELSE 10 * IntVal(SubSeq(ds, 1, Len(ds) - 1)) + DigitOf[ds[Len(ds)]]

\* cardinal words of an integer below one thousand
RECURSIVE IntWords(_)
IntWords(n) ==
  CASE n < 20 -> LowWords[n + 1]
    [] n >= 20 /\ n < 100 ->
         TensWords[(n \div 10) - 1] \o
           (IF n % 10 = 0 THEN <<>> ELSE <<"-">> \o LowWords[(n % 10) + 1])
    [] n >= 100 /\ n < 1000 ->
         LowWords[(n \div 100) + 1] \o <<" ", "h", "u", "n", "d", "r", "e", "d">> \o
           (IF n % 100 = 0 THEN <<>> ELSE <<" ", "a", "n", "d", " ">> \o IntWords(n % 100))

RECURSIVE FracWords(_)
FracWords(ds) ==
  IF ds = <<>> THEN <<>> ELSE <<" ">> \o LowWords[DigitOf[Head(ds)] + 1] \o FracWords(Tail(ds))

\* length of the run of digits x starts with
RECURSIVE DigitRun(_)
DigitRun(x) == IF x # <<>> /\ Head(x) \in DigitChars THEN 1 + DigitRun(Tail(x)) ELSE 0

\* length of the match of [0-9]+(?:[\.,][0-9]+)? at the start of x (0: none)
MatchLen(x) ==
  LET n == DigitRun(x)
      m == IF n > 0 /\ Len(x) > n + 1 /\ x[n + 1] \in {".", ","}
           THEN DigitRun(SubSeq(x, n + 2, Len(x))) ELSE 0
  IN  IF m > 0 THEN n + 1 + m ELSE n

num2wordsRaises(match) == \E i \in 1..Len(match) : match[i] = ","

num2words(match) ==
  LET n    == DigitRun(match)
      frac == SubSeq(match, n + 2, Len(match))
  IN  IF n = Len(match) \/ IntVal(frac) = 0
      THEN IntWords(IntVal(SubSeq(match, 1, n)))
      ELSE IntWords(IntVal(SubSeq(match, 1, n))) \o <<" ", "p", "o", "i", "n", "t">>
             \o FracWords(frac)

\* re.sub over the whole string: whether some num2words call raises
RECURSIVE numSubRaises(_)
numSubRaises(x) ==
  IF x = <<>> THEN FALSE
  ELSE LET k == MatchLen(x)
       IN  IF k = 0 THEN numSubRaises(Tail(x))
           ELSE num2wordsRaises(SubSeq(x, 1, k)) \/ numSubRaises(SubSeq(x, k + 1, Len(x)))

RECURSIVE numSub(_)
numSub(x) ==
  IF x = <<>> THEN <<>>
  ELSE LET k == MatchLen(x)
       IN  IF k = 0 THEN <<Head(x)>> \o numSub(Tail(x))
           ELSE num2words(SubSeq(x, 1, k)) \o numSub(SubSeq(x, k + 1, Len(x)))

(***************************************************************************)
(* _answer_variants: the six filters, each applied to every variant known  *)
(* when its stage starts; a filter that raises adds nothing.               *)
(***************************************************************************)
S_and == <<"a", "n", "d">>
S_percent == <<"p", "e", "r", "c", "e", "n", "t">>
Articles == {<<"a", " ">>, <<"a", "n", " ">>, <<"t", "h", "e", " ">>}
Punctuation == {"'", "(", ")", ".", ",", "QUOTE", "-"}

filter_unidecode(x) == IF unidecode(x) # x THEN {unidecode(x)} ELSE {}

filter_num2words(x) == IF numSubRaises(x) THEN {} ELSE {numSub(x)}

filter_symbols(x) ==
  (IF contains(x, <<"&">>) THEN {replace(x, <<"&">>, S_and)} ELSE {}) \cup
  (IF contains(x, <<"%">>) THEN {replace(x, <<"%">>, S_percent)} ELSE {})

filter_articles(x) ==
  {SubSeq(x, Len(a) + 1, Len(x)) : a \in {b \in Articles : startswith(x, b)}}

filter_nothing(x) == {}

filter_spaces(x) == {remove(x, {" "})}

filter_punctuation(x) == {remove(x, Punctuation)}

_answer_variants(answer) ==
  LET v0 == {lower(answer)}
      v1 == v0 \cup UNION {filter_unidecode(x) : x \in v0}
      v2 == v1 \cup UNION {filter_num2words(x) : x \in v1}
      v3 == v2 \cup UNION {filter_symbols(x) : x \in v2}
      v4 == v3 \cup UNION {filter_articles(x) : x \in v3}
      v5 == v4 \cup UNION {filter_spaces(x) : x \in v4}
  IN  v5 \cup UNION {filter_punctuation(x) : x \in v5}

min(a, b) == IF a <= b THEN a ELSE b

_do_check_answer(answer, correct_answer, match_character_count) ==
  \E c \in _answer_variants(correct_answer) :
    \E g \in _answer_variants(answer) :
      /\ Len(strip(g, {" "})) >= min(match_character_count, Len(c))
      /\ contains(c, strip(g, Whitespace))

(***************************************************************************)
(* The engine.  Every user is one thread calling handle_message with its   *)
(* own uid; "main" is the thread that registers the post-question handler. *)
(***************************************************************************)
MaxCalls == 2
MaxFailures == 1

\* the users
Callers == {"A", "B"}
Main == "main"
\* the BackgroundScheduler thread that runs the scoreboard jobs
Sched == "sched"
Threads == Callers \cup {Main, Sched}

\* kwargs.get('min_matching_characters', 5)
min_matching_characters == 5
command_prefix == <<"!">>

\* the question rows get_random_question can return, by id, and their 'answer'
QuestionIds == {"q1", "q2"}
Answer ==
  [q \in QuestionIds |->
     IF q = "q1" THEN <<"p", "a", "r", "i", "s">> ELSE <<"r", "o", "m", "e">>]

\* the text arguments of the modelled calls
T_paris == <<"p", "a", "r", "i", "s">>
T_pariis == <<"p", "a", "r", "i", "i", "s">>
T_new == <<"!", "n", "e", "w">>
T_trivia_new == <<"!", "t", "r", "i", "v", "i", "a", " ", "n", "e", "w">>
T_bogus == <<"!", "b", "o", "g", "u", "s">>
Texts == {T_paris, T_pariis, T_new, T_trivia_new, T_bogus}

\* the texts of the command specification
T_exit == <<"!", "e", "x", "i", "t">>
T_uptime == <<"!", "u", "p", "t", "i", "m", "e">>
T_score == <<"!", "s", "c", "o", "r", "e">>
T_today == <<"!", "t", "o", "d", "a", "y">>
T_help == <<"!", "h", "e", "l", "p">>
T_prefix == <<"!">>
T_new_padded == <<"!", " ", "n", "e", "w">>
CommandTexts ==
  {T_exit, T_uptime, T_new, T_score, T_today, T_help, T_bogus, T_prefix, T_new_padded,
   T_paris}

\* the texts sent while the scheduler runs
ScheduleTexts == {T_paris, T_today}

\* kwargs.get('admin_uid')
admin_uid == "A"

\* the callers that pass a correct_callback (the others pass None)
HasCallback(t) == t # "B"

\* _commands(): (aliases, help text given, handler), in table order
_commands ==
  << [aliases |-> {<<"e", "x", "i", "t">>}, help |-> FALSE, handler |-> "_command_exit"],
     [aliases |-> {<<"u", "p", "t", "i", "m", "e">>}, help |-> FALSE,
      handler |-> "_command_uptime"],
     [aliases |-> {<<"n", "e", "w">>, <<"t", "r", "i", "v", "i", "a", " ", "n", "e", "w">>},
      help |-> TRUE, handler |-> "new"],
     [aliases |-> {<<"a", "l", "l", "t", "i", "m", "e">>, <<"s", "c", "o", "r", "e">>,
                   <<"s", "c", "o", "r", "e", "s">>},
      help |-> TRUE, handler |-> "alltime"],
     [aliases |-> {<<"y", "e", "s", "t", "e", "r", "d", "a", "y">>}, help |-> TRUE,
      handler |-> "yesterday"],
     [aliases |-> {<<"t", "o", "d", "a", "y">>}, help |-> TRUE, handler |-> "today"],
     [aliases |-> {<<"h", "e", "l", "p">>}, help |-> TRUE, handler |-> "_command_help"] >>

VARIABLES
  lock,                   \* self._lock: None or the thread holding it
  current_question,       \* self._current_question: None or a question id
  attempts,               \* self._attempts
  post_question_handler,  \* "default" (the no-op lambda) or "registered"
  pc,                     \* where each thread is
  frame,                  \* each thread's arguments and local variables
  result,                 \* how each thread's last call ended
  calls,                  \* handle_message calls made so far
  failures,               \* storage operations and callbacks that raised so far
  players,                \* the uids with a row in the players table
  log,                    \* the storage operations, callbacks and attempts of the
                          \* round, in order, up to the post of the next question
  matcher                 \* one call of _do_check_answer: its arguments and result

vars == <<lock, current_question, attempts, post_question_handler,
          pc, frame, result, calls, failures, players, log, matcher>>

\* winning_answer holds the id of the question whose answer it is
NoFrame ==
  [text |-> <<>>, correct_callback |-> FALSE, winning_uid |-> None, todo |-> {},
   attempt_user |-> None, winning_user |-> None, winning_answer |-> None,
   question |-> None, message_payload |-> None, days_ago |-> None,
   suppress_no_scores |-> FALSE, scores |-> 0]

\* no call of _do_check_answer is being examined
NoCall ==
  [answer |-> <<>>, correct_answer |-> <<>>, match_character_count |-> 0,
   returned |-> FALSE, result |-> FALSE]

Ev(op, th, uid, q, prev, n, ok, txt) ==
  [op |-> op, th |-> th, uid |-> uid, q |-> q, prev |-> prev, n |-> n, ok |-> ok,
   text |-> txt]

\* the first event after a posted question starts the next round's log
Emit(e) ==
  log' = IF log # <<>> /\ log[Len(log)].op = "post_question" THEN <<e>> ELSE Append(log, e)

Init ==
  /\ lock = None
  /\ current_question \in {None} \cup QuestionIds
  /\ attempts = <<>>
  /\ post_question_handler = "default"
  /\ pc = [t \in Threads |-> IF t = Main THEN "start" ELSE "idle"]
  /\ frame = [t \in Threads |-> NoFrame]
  /\ result = [t \in Threads |-> "none"]
  /\ calls = 0
  /\ failures = 0
  /\ players = {}
  /\ log = <<>>
  /\ matcher = NoCall

Goto(t, p) == pc' = [pc EXCEPT ![t] = p] /\ UNCHANGED <<lock, result>>

FinishKeepingLock(t, outcome) ==
  /\ pc' = [pc EXCEPT ![t] = IF t \in Callers THEN "idle" ELSE "done"]
  /\ lock' = IF lock = t /\ outcome = "returned" THEN None ELSE lock
  /\ result' = [result EXCEPT ![t] = outcome]
  /\ frame' = [frame EXCEPT ![t] = NoFrame]

\* leaving the with-block, by return or by an exception: the lock is released,
\* the thread's frame is gone
Finish(t, outcome) ==
  /\ pc' = [pc EXCEPT ![t] = IF t \in Callers THEN "idle" ELSE "done"]
  /\ lock' = IF lock = t THEN None ELSE lock
  /\ result' = [result EXCEPT ![t] = outcome]
  /\ frame' = [frame EXCEPT ![t] = NoFrame]

LockAlwaysFree == TRUE

\* with self._lock: waits until no thread holds the lock
LockFree == lock = None

Count(seq, u) == Cardinality({i \in 1..Len(seq) : seq[i] = u})
Range(seq) == {seq[i] : i \in 1..Len(seq)}

\* get_player_id finds a row once add_player was executed for the uid
PlayerExists(u) == u \in players

\* registration precedes the first message; no message arrives during it
Setup == calls = 0
Quiet == pc[Main] \in {"start", "done"}

handle_message(t, guard, texts) ==
  /\ guard
  /\ pc[t] = "idle"
  /\ calls < MaxCalls
  /\ calls' = calls + 1
  /\ pc' = [pc EXCEPT ![t] = "handle_message"]
  /\ result' = [result EXCEPT ![t] = "none"]
  /\ \E x \in texts :
       frame' = [frame EXCEPT ![t] = [NoFrame EXCEPT !.text = x,
                                        !.correct_callback = HasCallback(t),
                                        !.message_payload = t]]
  /\ UNCHANGED <<matcher, lock, current_question, attempts, post_question_handler, failures,
                 players, log>>

\* with self._lock: and the test of the command prefix
Acquire(t) ==
  /\ pc[t] = "handle_message"
  /\ LockFree
  /\ lock' = t
  /\ pc' = [pc EXCEPT ![t] = IF startswith(frame[t].text, command_prefix)
                              THEN "_handle_command" ELSE "_attempt_answer"]
  /\ Emit(Ev("acquire", t, t, current_question, None, 0, FALSE, frame[t].text))
  /\ UNCHANGED <<matcher, current_question, attempts, post_question_handler, frame, result,
                 calls, failures, players>>

CommandIndexSubstring(cmd) ==
  LET hits == {k \in 1..Len(_commands) : \E a \in _commands[k].aliases : contains(a, cmd)}
  IN  IF hits = {} THEN 0 ELSE CHOOSE k \in hits : \A j \in hits : k <= j

\* the first table entry one of whose aliases equals the text (0: none)
CommandIndex(cmd) ==
  LET hits == {k \in 1..Len(_commands) : cmd \in _commands[k].aliases}
  IN  IF hits = {} THEN 0 ELSE CHOOSE k \in hits : \A j \in hits : k <= j

NewCommandWinnerCaller(uid) == uid

\* the winner the `new` handler completes the round with
NewCommandWinner(uid) == None

\* the days_ago argument of the three scoreboard entries
ScoreWindows == [alltime |-> None, yesterday |-> "1", today |-> "0"]

\* the message_payload the scoreboard entries call _show_scores with: their lambdas
\* take the dispatcher's keywords and pass only days_ago and suppress_no_scores
ShowScoresPayload(message_payload) == None

_handle_command(t) ==
  /\ pc[t] = "_handle_command"
  /\ LET k == CommandIndex(Tail(frame[t].text))
         h == _commands[k].handler
     IN  IF k = 0
         THEN /\ Finish(t, "returned")
              /\ UNCHANGED log
         ELSE /\ Emit(Ev("command", t, t, current_question, None, k, FALSE, frame[t].text))
              /\ IF h = "new"
                 THEN /\ frame' = [frame EXCEPT ![t].winning_uid = NewCommandWinner(t)]
                      /\ Goto(t, "_complete_question_round")
                 ELSE IF h \in DOMAIN ScoreWindows
                 THEN /\ frame' = [frame EXCEPT
                                     ![t].days_ago = ScoreWindows[h],
                                     ![t].suppress_no_scores = FALSE,
                                     ![t].message_payload = ShowScoresPayload(@)]
                      /\ Goto(t, "_show_scores")
                 ELSE /\ UNCHANGED frame
                      /\ Goto(t, h)
  /\ UNCHANGED <<matcher, current_question, attempts, post_question_handler, calls, failures, players>>

_attempt_answer(t) ==
  /\ pc[t] = "_attempt_answer"
  /\ attempts' = Append(attempts, t)
  /\ Emit(Ev("attempt", t, t, current_question, None, 0, FALSE, frame[t].text))
  /\ Goto(t, "_check_answer")
  /\ UNCHANGED <<matcher, current_question, post_question_handler, frame, calls, failures, players>>

_check_answer_any(answer) == TRUE

\* only evaluated with a current question: None['answer'] raises TypeError
_check_answer(answer) ==
  _do_check_answer(answer, Answer[current_question], min_matching_characters)

\* if self._check_answer(answer):
_attempt_answer_check(t) ==
  /\ pc[t] = "_check_answer"
  /\ IF current_question = None
     THEN /\ Finish(t, "raised")
          /\ Emit(Ev("TypeError", t, t, None, None, 0, FALSE, frame[t].text))
     ELSE LET ok == _check_answer(frame[t].text)
          IN  /\ Emit(Ev("check", t, t, current_question, None, 0, ok, frame[t].text))
              /\ IF ok
                 THEN /\ Goto(t, "correct_callback")
                      /\ UNCHANGED frame
                 ELSE Finish(t, "returned")
  /\ UNCHANGED <<matcher, current_question, attempts, post_question_handler, calls, failures, players>>

CallbackCalledAlways(given) == TRUE

\* whether the callback is called: only when one was passed
CallbackCalled(given) == given

correct_callback(t) ==
  /\ pc[t] = "correct_callback"
  /\ IF CallbackCalled(frame[t].correct_callback)
     THEN Emit(Ev("correct_callback", t, t, current_question, None, 0, TRUE, <<>>))
     ELSE UNCHANGED log
  /\ frame' = [frame EXCEPT ![t].winning_uid = t]
  /\ Goto(t, "_complete_question_round")
  /\ UNCHANGED <<matcher, current_question, attempts, post_question_handler, calls, failures, players>>

_complete_question_round(t) ==
  /\ pc[t] = "_complete_question_round"
  /\ frame' = [frame EXCEPT ![t].todo = Range(attempts)]
  /\ Goto(t, IF attempts = <<>> THEN "_update_question_round_table" ELSE "_add_user")
  /\ UNCHANGED <<matcher, current_question, attempts, post_question_handler, calls, failures, players, log>>

_add_user(t) ==
  /\ pc[t] = "_add_user"
  /\ \E u \in frame[t].todo :
       /\ frame' = [frame EXCEPT ![t].todo = @ \ {u}, ![t].attempt_user = u]
       /\ Emit(Ev("add_player", t, u, None, None, 0, FALSE, <<>>))
       /\ players' = players \cup {u}
  /\ Goto(t, "_player_attempt")
  /\ UNCHANGED <<matcher, current_question, attempts, post_question_handler, calls, failures>>

AttemptCountOne(u) == 1

\* the attempts a player is credited with: self._attempts.count(attempt_user)
AttemptCount(u) == Count(attempts, u)

_player_attempt(t) ==
  /\ pc[t] = "_player_attempt"
  /\ LET u == frame[t].attempt_user
     IN  Emit(Ev("player_attempt", t, u, None, None, AttemptCount(u),
                 u = frame[t].winning_uid, <<>>))
  /\ Goto(t, IF frame[t].todo = {} THEN "_update_question_round_table" ELSE "_add_user")
  /\ UNCHANGED <<matcher, current_question, attempts, post_question_handler, frame, calls, failures, players>>

_update_question_round_table(t) ==
  /\ pc[t] = "_update_question_round_table"
  /\ LET w == frame[t].winning_uid
     IN  IF w # None /\ ~PlayerExists(w)
         THEN /\ Finish(t, "raised")
              /\ Emit(Ev("TypeError", t, w, None, None, 0, FALSE, <<>>))
         ELSE /\ Emit(Ev("update_question_round", t, w, current_question, None, 0,
                         w # None, <<>>))
              /\ Goto(t, IF w # None THEN "_get_player_stats_timeframe" ELSE "_new_question")
              /\ UNCHANGED frame
  /\ UNCHANGED <<matcher, current_question, attempts, post_question_handler, calls, failures, players>>

_get_player_stats_timeframe(t) ==
  /\ pc[t] = "_get_player_stats_timeframe"
  /\ frame' = [frame EXCEPT ![t].winning_user = frame[t].winning_uid]
  /\ Emit(Ev("get_timeframe_scores", t, frame[t].winning_uid, None, None, 0, FALSE, <<>>))
  /\ Goto(t, "_new_question")
  /\ UNCHANGED <<matcher, current_question, attempts, post_question_handler, calls, failures, players>>

_new_question(t) ==
  /\ pc[t] = "_new_question"
  /\ frame' = [frame EXCEPT ![t].winning_answer = current_question]
  /\ attempts' = <<>>
  /\ Goto(t, "_get_new_question")
  /\ UNCHANGED <<matcher, current_question, post_question_handler, calls, failures, players, log>>

_get_new_question(t) ==
  /\ pc[t] = "_get_new_question"
  /\ \E q \in QuestionIds :
       /\ current_question' = q
       /\ Emit(Ev("get_random_question", t, None, q, frame[t].winning_answer, 0, FALSE,
                  <<>>))
  /\ Goto(t, "_create_question_round")
  /\ UNCHANGED <<matcher, attempts, post_question_handler, frame, calls, failures, players>>

_create_question_round(t) ==
  /\ pc[t] = "_create_question_round"
  /\ Emit(Ev("create_question_round", t, None, current_question,
             frame[t].winning_answer, 0, FALSE, <<>>))
  /\ frame' = [frame EXCEPT ![t].question = current_question]
  /\ Goto(t, "_post_question_handler")
  /\ UNCHANGED <<matcher, current_question, attempts, post_question_handler, calls, failures, players>>

_post_question_handler(t) ==
  /\ pc[t] = "_post_question_handler"
  /\ Emit(Ev("post_question", t, frame[t].winning_user, frame[t].question,
             frame[t].winning_answer, 0, post_question_handler = "registered", <<>>))
  /\ Finish(t, "returned")
  /\ UNCHANGED <<matcher, current_question, attempts, post_question_handler, calls, failures, players>>

AlwaysFirstQuestion == TRUE

\* whether registering the handler starts a round
NeedsFirstQuestion == current_question = None

on_post_question(guard) ==
  /\ guard
  /\ pc[Main] = "start"
  /\ post_question_handler' = "registered"
  /\ pc' = [pc EXCEPT ![Main] = IF NeedsFirstQuestion THEN "_new_question" ELSE "done"]
  /\ UNCHANGED <<matcher, lock, current_question, attempts, frame, result, calls, failures, players, log>>

(***************************************************************************)
(* The other command handlers and the scoreboard.  A reply or a message is *)
(* an event of the log: uid is the message_payload it was sent with (None  *)
(* for post_message), prev says what was sent, n is the number it carries. *)
(***************************************************************************)
Out(op, t, payload, what, n, txt) == Ev(op, t, payload, None, what, n, FALSE, txt)

S_ok_bye == <<"o", "k", " ", "b", "y", "e">>

EveryoneIsAdministrator(uid) == TRUE

\* kwargs.get('uid') == self._admin_uid
IsAdministrator(uid) == uid = admin_uid

_command_exit(t) ==
  /\ pc[t] = "_command_exit"
  /\ IF IsAdministrator(t)
     THEN /\ Emit(Out("post_reply", t, frame[t].message_payload, "exit", 0, S_ok_bye))
          /\ Goto(t, "_do_exit")
          /\ UNCHANGED frame
     ELSE /\ Finish(t, "returned")
          /\ UNCHANGED log
  /\ UNCHANGED <<matcher, current_question, attempts, post_question_handler, calls, failures,
                 players>>

\* os.kill(os.getpid(), signal.SIGTERM): the process ends, no thread takes another
\* step, whatever it holds
_do_exit(t) ==
  /\ pc[t] = "_do_exit"
  /\ pc' = [u \in Threads |-> "terminated"]
  /\ UNCHANGED <<matcher, lock, current_question, attempts, post_question_handler, frame,
                 result, calls, failures, players, log>>

\* "%d" % n
RECURSIVE Decimal(_)
Decimal(n) ==
  IF n < 10 THEN <<DecimalDigits[n + 1]>>
  ELSE Decimal(n \div 10) \o <<DecimalDigits[(n % 10) + 1]>>

\* "%02d" % n, for n below one hundred
TwoDigits(n) == <<DecimalDigits[(n \div 10) + 1], DecimalDigits[(n % 10) + 1]>>

\* str(datetime.timedelta(seconds=n)): "H:MM:SS" with the days, when there are any,
\* written in front
timedelta_str(n) ==
  LET days == n \div 86400
      rest == n % 86400
      hms  == Decimal(rest \div 3600) \o <<":">> \o TwoDigits((rest % 3600) \div 60)
                \o <<":">> \o TwoDigits(rest % 60)
  IN  IF days = 0 THEN hms
      ELSE Decimal(days) \o <<" ", "d", "a", "y">> \o (IF days = 1 THEN <<>> ELSE <<"s">>)
             \o <<",", " ">> \o hms

\* f'{x:0>8}': zeros on the left up to eight characters
RECURSIVE pad8(_)
pad8(x) == IF Len(x) >= 8 THEN x ELSE pad8(<<"0">> \o x)

uptime_format(n) == pad8(timedelta_str(n))

\* int(time.time()) - int(self._starttime) at the calls of the model, in seconds
ElapsedTimes == {0, 3661, 86399, 86400, 360000}

_command_uptime(t) ==
  /\ pc[t] = "_command_uptime"
  /\ \E uptime \in ElapsedTimes :
       Emit(Out("post_reply", t, frame[t].message_payload, "uptime", uptime,
                uptime_format(uptime)))
  /\ Finish(t, "returned")
  /\ UNCHANGED <<matcher, current_question, attempts, post_question_handler, calls, failures,
                 players>>

\* the entries _command_help lists
HelpEntries == {k \in 1..Len(_commands) : _commands[k].help}

_command_help(t) ==
  /\ pc[t] = "_command_help"
  /\ Emit(Out("post_reply", t, frame[t].message_payload, "help", Cardinality(HelpEntries),
              <<>>))
  /\ Finish(t, "returned")
  /\ UNCHANGED <<matcher, current_question, attempts, post_question_handler, calls, failures,
                 players>>

\* how many rows get_timeframe_scores returns for the window of a scoreboard
ScoreCounts == {0, 1}

SuppressNever(suppress_no_scores, scores) == FALSE

\* if suppress_no_scores and len(scores) == 0: return
Suppressed(suppress_no_scores, scores) == suppress_no_scores /\ scores = 0

ShowScoresEntersUnderLock(t) == lock \in {None, t}

\* what _show_scores waits for before it runs: nothing, it has no `with self._lock`
ShowScoresEnters(t) == TRUE

\* _show_scores up to the early return
_show_scores(t) ==
  /\ pc[t] = "_show_scores"
  /\ ShowScoresEnters(t)
  /\ \E scores \in ScoreCounts :
       /\ Emit(Ev("get_timeframe_scores", t, None, None, frame[t].days_ago, scores, FALSE,
                  <<>>))
       /\ IF Suppressed(frame[t].suppress_no_scores, scores)
          THEN Finish(t, "returned")
          ELSE /\ frame' = [frame EXCEPT ![t].scores = scores]
               /\ Goto(t, "_post_scores")
  /\ UNCHANGED <<matcher, current_question, attempts, post_question_handler, calls, failures,
                 players>>

\* the display names, the table, pre_format and the handler that sends it
_post_scores(t) ==
  /\ pc[t] = "_post_scores"
  /\ IF frame[t].message_payload # None
     THEN Emit(Out("post_reply", t, frame[t].message_payload, "scoreboard",
                   frame[t].scores, <<>>))
     ELSE Emit(Out("post_message", t, None, "scoreboard", frame[t].scores, <<>>))
  /\ Finish(t, "returned")
  /\ UNCHANGED <<matcher, current_question, attempts, post_question_handler, calls, failures,
                 players>>

\* the days_ago of the configured schedules
ScheduledDays == {"1"}

\* a cron trigger fires: the scheduler thread calls _show_scores with the job's kwargs
scoreboard_job ==
  /\ pc[Sched] = "idle"
  /\ pc' = [pc EXCEPT ![Sched] = "_show_scores"]
  /\ \E d \in ScheduledDays :
       frame' = [frame EXCEPT ![Sched] = [NoFrame EXCEPT !.days_ago = d,
                                                          !.suppress_no_scores = TRUE]]
  /\ UNCHANGED <<matcher, lock, current_question, attempts, post_question_handler, result,
                 calls, failures, players, log>>

\* where a storage operation or a callback is about to run
RaisingPcs ==
  {"correct_callback", "_add_user", "_player_attempt", "_update_question_round_table",
   "_get_player_stats_timeframe", "_get_new_question", "_create_question_round",
   "_post_question_handler"}

OperationRaises(t) ==
  /\ pc[t] \in RaisingPcs
  /\ failures < MaxFailures
  /\ failures' = failures + 1
  /\ Emit(Ev("raise", t, t, current_question, pc[t], 0, FALSE, <<>>))
  /\ Finish(t, "raised")
  /\ UNCHANGED <<matcher, current_question, attempts, post_question_handler, calls, players>>

Step(t) ==
  \/ _new_question(t)
  \/ _get_new_question(t)
  \/ _create_question_round(t)
  \/ _post_question_handler(t)

CallerStep(t) ==
  \/ Acquire(t)
  \/ _handle_command(t)
  \/ _attempt_answer(t)
  \/ _attempt_answer_check(t)
  \/ correct_callback(t)
  \/ _complete_question_round(t)
  \/ _add_user(t)
  \/ _player_attempt(t)
  \/ _update_question_round_table(t)
  \/ _get_player_stats_timeframe(t)

Next ==
  \/ \E t \in Callers : handle_message(t, Quiet, Texts)
  \/ \E t \in Callers : CallerStep(t)
  \/ \E t \in Threads : Step(t)
  \/ on_post_question(Setup)

\* storage operations return, handlers are registered before the first message
Spec == Init /\ [][Next]_vars

\* storage operations and callbacks may raise
NextFail == Next \/ \E t \in Callers : OperationRaises(t)
SpecFail == Init /\ [][NextFail]_vars

\* the handler may be registered while messages are being handled
NextRace ==
  \/ Next
  \/ \E t \in Callers : handle_message(t, TRUE, Texts)
  \/ on_post_question(TRUE)
SpecRace == Init /\ [][NextRace]_vars

\* the engine in service: the post-question handler was registered, and so a round
\* started, before the first message
Registered == pc[Main] = "done"

NextService ==
  \/ \E t \in Callers : handle_message(t, Registered, Texts)
  \/ \E t \in Callers : CallerStep(t)
  \/ \E t \in Threads : Step(t)
  \/ on_post_question(Setup)

\* every thread keeps running, and the lock is fair: a call that finds the lock free
\* again and again gets it
SpecService ==
  /\ Init
  /\ [][NextService]_vars
  /\ \A t \in Callers : SF_vars(Acquire(t))
  /\ \A t \in Callers : WF_vars(CallerStep(t))
  /\ \A t \in Threads : WF_vars(Step(t))

\* the arguments of the matcher's calls: plain words, upper case, spaces and a tab
\* around the text, an article, punctuation, numerals, symbols, an accent
MatchStrings ==
  { <<"p", "a", "r", "i", "s">>,
    <<"p", "a", "r", "i", "s", " ", "f", "r", "a", "n", "c", "e">>,
    <<"TAB", "p", "a", "r", "i">>,
    <<" ", "P", "a", "r", "i", "s", " ">>,
    <<"t", "h", "e", " ", "r", "o", "m", "e">>,
    <<"(", "r", "o", "m", "e", ")">>,
    <<"7", " ", "%">>,
    <<"1", ",", "5">>,
    <<"c", "a", "f", "e_acute">>,
    <<"a", "b">>,
    <<" ">>,
    <<"TAB">>,
    <<"TAB", "TAB", "TAB", "TAB", "TAB">> }
MatchCounts == {1, 3, 5, 7}

\* one call of the static method for each choice of arguments
InitMatcher ==
  /\ lock = None
  /\ current_question = None
  /\ attempts = <<>>
  /\ post_question_handler = "default"
  /\ pc = [t \in Threads |-> IF t = Main THEN "start" ELSE "idle"]
  /\ frame = [t \in Threads |-> NoFrame]
  /\ result = [t \in Threads |-> "none"]
  /\ calls = 0
  /\ failures = 0
  /\ players = {}
  /\ log = <<>>
  /\ \E a \in MatchStrings : \E c \in MatchStrings : \E m \in MatchCounts :
       matcher = [NoCall EXCEPT !.answer = a, !.correct_answer = c,
                                !.match_character_count = m]

do_check_answer ==
  /\ ~matcher.returned
  /\ matcher' = [matcher EXCEPT
                   !.returned = TRUE,
                   !.result = _do_check_answer(matcher.answer, matcher.correct_answer,
                                               matcher.match_character_count)]
  /\ UNCHANGED <<lock, current_question, attempts, post_question_handler, pc, frame,
                 result, calls, failures, players, log>>

SpecMatcher == InitMatcher /\ [][do_check_answer]_vars

CommandStep(t) ==
  \/ _command_exit(t)
  \/ _do_exit(t)
  \/ _command_uptime(t)
  \/ _command_help(t)

ScoreStep(t) ==
  \/ _show_scores(t)
  \/ _post_scores(t)

\* every command of the table
NextCommands ==
  \/ \E t \in Callers : handle_message(t, Quiet, CommandTexts)
  \/ \E t \in Callers : CallerStep(t)
  \/ \E t \in Callers : CommandStep(t)
  \/ \E t \in Callers : ScoreStep(t)
  \/ \E t \in Threads : Step(t)
  \/ on_post_question(Setup)
SpecCommands == Init /\ [][NextCommands]_vars

\* the scheduler's scoreboards beside answers, skips and the scoreboard command
NextSchedule ==
  \/ \E t \in Callers : handle_message(t, Quiet, ScheduleTexts)
  \/ \E t \in Callers : CallerStep(t)
  \/ \E t \in Callers \cup {Sched} : ScoreStep(t)
  \/ \E t \in Threads : Step(t)
  \/ on_post_question(Setup)
  \/ scoreboard_job
SpecSchedule == Init /\ [][NextSchedule]_vars

(***************************************************************************)
(* The claims.  They read the log: the events of the round in order, each  *)
(* with its thread (th), uid, question (q), previous question (prev),      *)
(* count (n), flag (ok) and text.                                          *)
(***************************************************************************)
Idx == 1..Len(log)
CreationOps == {"get_random_question", "create_question_round", "post_question"}
CreationOrder == <<"get_random_question", "create_question_round", "post_question">>
Updates == {i \in Idx : log[i].op = "update_question_round" /\ log[i].th \in Callers}
OpsAfter(i, ops) ==
  LET rest == SelectSeq(SubSeq(log, i + 1, Len(log)), LAMBDA e : e.op \in ops)
  IN  [k \in 1..Len(rest) |-> rest[k].op]
IsPrefix(a, b) == Len(a) <= Len(b) /\ SubSeq(b, 1, Len(a)) = a
Upserts(u) == {j \in Idx : log[j].op = "player_attempt" /\ log[j].uid = u}
AttemptsBy(u) == {j \in Idx : log[j].op = "attempt" /\ log[j].th = u}
Matches(txt, q) == _do_check_answer(txt, Answer[q], min_matching_characters)

\* C1: however the handle_message calls interleave, a round is completed at most once:
\* one completion record, one winner credited (none on a skip), and then exactly one
\* question draw, one create-round record and one post-question callback, all by the
\* completing call; once that call has returned the new round is there.
C1_RoundCompletedOnce ==
  /\ Cardinality(Updates) <= 1
  /\ \A i \in Updates :
       LET next == OpsAfter(i, CreationOps \cup {"update_question_round"})
           credited == {j \in Idx : log[j].op = "player_attempt" /\ log[j].ok}
       IN  /\ IsPrefix(next, CreationOrder)
           /\ pc[log[i].th] = "idle" => next = CreationOrder
           /\ \A k \in Idx : k > i => log[k].th = log[i].th
           /\ IF log[i].uid = None
              THEN credited = {}
              ELSE \E j \in credited :
                     credited = {j} /\ log[j].uid = log[i].uid /\ j < i

\* a round won by one user while the other user's matching answer waits for the lock
C1_Witness ==
  \E a \in Callers : \E b \in Callers \ {a} :
    /\ pc[b] = "handle_message"
    /\ frame[b].text = T_paris
    /\ log # <<>>
    /\ log[Len(log)].op = "post_question"
    /\ log[Len(log)].uid = a

\* C2 as claimed: when A's matching attempt completes the round while B's non-matching
\* attempt has been submitted too, B is in the player upserts of that round.
C2_BothInAggregate ==
  \A i \in Updates : \A b \in Callers :
    ( /\ log[i].uid # None
      /\ b # log[i].uid
      /\ pc[b] = "handle_message"
      /\ ~startswith(frame[b].text, command_prefix)
      /\ ~Matches(frame[b].text, log[i].q) )
    => Upserts(b) # {}

\* C2: the winner is in the player upserts of the round it wins; another user is in
\* them exactly when an attempt of that user was processed in the round before the
\* winning attempt; no attempt is recorded in the round after the winning one.
C2_AggregateByLockOrder ==
  \A i \in Updates :
    log[i].uid # None =>
      /\ \E j \in Upserts(log[i].uid) : j < i
      /\ \A u \in Callers :
           (\E j \in Upserts(u) : j < i) <=> (\E j \in AttemptsBy(u) : j < i)
      /\ \A u \in Callers : \A j \in AttemptsBy(u) : j < i

\* B's wrong attempt was processed first, then A won: both are upserted
C2_Witness ==
  \E i \in Updates : \E b \in Callers :
    /\ log[i].uid # None
    /\ b # log[i].uid
    /\ Upserts(b) # {}
    /\ \E j \in AttemptsBy(b) : log[j].text = T_pariis

\* the steps that write self._attempts or self._current_question
WritePcs == {"_attempt_answer", "_new_question", "_get_new_question"}

\* C3 as claimed: a thread about to write the round state holds the lock, or no
\* thread is inside handle_message.
C3_SingleWriter ==
  \A t \in Threads :
    pc[t] \in WritePcs => (lock = t \/ \A c \in Callers : pc[c] = "idle")

\* C4 as claimed: every question draw, create-round record and post-question callback
\* is made by a handle_message call that wrote a completion record before it.
C4_OnlyCompletionCreates ==
  \A i \in Idx :
    log[i].op \in CreationOps =>
      /\ log[i].th \in Callers
      /\ \E j \in 1..i : log[j].op = "update_question_round" /\ log[j].th = log[i].th

CompletionTail ==
  {"_get_player_stats_timeframe", "_new_question", "_get_new_question",
   "_create_question_round", "_post_question_handler"}

\* C4: a new round is created either by the call that wrote the completion record,
\* right after it and under the same hold of the lock, or by on_post_question when it
\* finds no current question (no lock, no completion record).
C4_CreationPaths ==
  /\ \A i \in Idx :
       log[i].op \in CreationOps =>
         IF log[i].th = Main
         THEN /\ log[i].prev = None
              /\ \A j \in Idx : log[j].op = "update_question_round" => log[j].th # Main
         ELSE \E j \in 1..i :
                /\ log[j].op = "update_question_round"
                /\ \A k \in j..i : log[k].th = log[i].th
                /\ \A k \in (j + 1)..i :
                     log[k].op \in CreationOps \cup {"get_timeframe_scores"}
  /\ \A t \in Callers : pc[t] \in CompletionTail => lock = t

\* the first round, created by registering the handler
C4_Witness ==
  \E i \in Idx : log[i].op = "post_question" /\ log[i].th = Main /\ log[i].ok

\* the attempts of the round whose text matches the question they were made on
Matching ==
  {j \in Idx : log[j].op = "attempt" /\ log[j].q # None /\ Matches(log[j].text, log[j].q)}

\* the acquire that starts the call event i belongs to
IsCallStart(a, i) ==
  /\ a <= i
  /\ log[a].op = "acquire"
  /\ log[a].th = log[i].th
  /\ \A b \in (a + 1)..i : log[b].op # "acquire"

\* C5: the winner of a round is the user of the first attempt, in the order the lock
\* was acquired, whose text matches the round's answer; that attempt is the last one
\* of the round (later ones belong to the next round), its call completes the round,
\* and a call whose attempt does not match draws no new question.
C5_FirstMatchWins ==
  /\ Cardinality(Matching) <= 1
  /\ \A j \in Matching : \A k \in Idx : log[k].op = "attempt" => k <= j
  /\ \A i \in Updates :
       log[i].uid # None => \E j \in Matching : j < i /\ log[j].th = log[i].uid
  /\ \A j \in Matching :
       pc[log[j].th] = "idle" => \E i \in Updates : i > j /\ log[i].uid = log[j].th
  /\ \A i \in Idx :
       (log[i].op = "get_random_question" /\ log[i].th \in Callers) =>
         \E a \in Idx :
           /\ IsCallStart(a, i)
           /\ \/ startswith(log[a].text, command_prefix)
              \/ log[a].q # None /\ Matches(log[a].text, log[a].q)

\* a round won after another user's attempt failed to match
C5_Witness ==
  \E i \in Updates : \E j \in Matching : \E k \in Idx :
    /\ k < j
    /\ j < i
    /\ log[k].op = "attempt"
    /\ log[k].th # log[j].th
    /\ log[Len(log)].op = "post_question"

\* C6: when the completion record is written, every user who attempted in the round
\* has exactly one upsert, with the number of its attempts and correct = (it is the
\* winner), and nobody else has one; a won round has exactly one upsert with correct
\* set, a skipped round none; the attempts list is empty when the next round is posted.
C6_UpsertPerAttempter ==
  /\ \A i \in Updates :
       LET credited == {j \in Idx : log[j].op = "player_attempt" /\ log[j].ok}
       IN  /\ \A u \in Callers :
                LET made == {j \in AttemptsBy(u) : j < i}
                IN  /\ \A j \in Upserts(u) : j < i
                    /\ IF made = {}
                       THEN Upserts(u) = {}
                       ELSE \E j \in Upserts(u) :
                              /\ Upserts(u) = {j}
                              /\ log[j].n = Cardinality(made)
                              /\ log[j].ok = (u = log[i].uid)
           /\ Cardinality(credited) = IF log[i].uid = None THEN 0 ELSE 1
  /\ (log # <<>> /\ log[Len(log)].op = "post_question") => attempts = <<>>

\* a user upserted with two attempts
C6_Witness ==
  \E i \in Updates : \E u \in Callers : \E j \in Upserts(u) : log[j].n = 2

NewTexts == {T_new, T_trivia_new}

\* C7: after `new` or `trivia new`, whatever the state, the call writes a completion
\* record with no winner, issues no upsert with correct set and no winner-stats lookup,
\* and posts a new question with winning_user None.
C7_NewSkipsRound ==
  \A c \in Idx :
    (log[c].op = "command" /\ log[c].text \in NewTexts) =>
      /\ \A j \in Idx :
           j > c =>
             /\ log[j].op = "player_attempt" => ~log[j].ok
             /\ log[j].op = "update_question_round" => log[j].uid = None
             /\ log[j].op # "get_timeframe_scores"
             /\ log[j].op = "post_question" => log[j].uid = None
      /\ pc[log[c].th] = "idle" =>
           /\ \E j \in Updates : j > c
           /\ log[Len(log)].op = "post_question"
           /\ log[Len(log)].th = log[c].th

\* `new` with no current question, and `new` on a round with an attempt
C7_Witness ==
  \E c \in Idx :
    /\ log[c].op = "command"
    /\ log[c].q = None
    /\ log[Len(log)].op = "post_question"
    /\ log[Len(log)].uid = None
    /\ \E u \in Callers : Upserts(u) # {}

\* C8: the correct-callback is called only right after a matching check of the same
\* call, by a caller that passed one; a matching check is followed at once by the
\* callback when one was passed, before any effect of the completion, and is not
\* followed by it when none was passed.
C8_CallbackBeforeCompletion ==
  /\ \A j \in Idx :
       log[j].op = "correct_callback" =>
         /\ j > 1
         /\ log[j - 1].op = "check"
         /\ log[j - 1].th = log[j].th
         /\ Matches(log[j - 1].text, log[j - 1].q)
         /\ HasCallback(log[j].th)
  /\ \A j \in Idx :
       (log[j].op = "check" /\ Matches(log[j].text, log[j].q) /\ j < Len(log)) =>
         (HasCallback(log[j].th) <=> log[j + 1].op = "correct_callback")
  /\ \A j \in Idx :
       (log[j].op = "check" /\ ~Matches(log[j].text, log[j].q) /\ j < Len(log)) =>
         log[j + 1].op = "acquire"

\* a callback followed by the completion record of the round
C8_Witness ==
  \E j \in Idx : \E i \in Updates : log[j].op = "correct_callback" /\ j < i

Outside == {"idle", "handle_message"}

\* C9: a thread that is not inside the with-block does not hold the lock, also after
\* its call raised; when no thread is inside, the lock is free.
C9_LockReleased ==
  /\ \A t \in Callers : pc[t] \in Outside => lock # t
  /\ (\A t \in Callers : pc[t] \in Outside) => lock = None
  /\ lock # None => lock \in Callers

\* a call raised and a later call acquired the lock
C9_Witness ==
  \E i \in Idx : \E j \in Idx :
    i < j /\ log[i].op = "raise" /\ log[j].op = "acquire" /\ result[log[i].th] = "raised"

StoragePcs == RaisingPcs \ {"correct_callback", "_post_question_handler"}

RECURSIVE SumN(_)
SumN(S) == IF S = {} THEN 0 ELSE LET j == CHOOSE k \in S : TRUE IN log[j].n + SumN(S \ {j})

\* C10 as claimed: when a storage operation raises in a call that started on a
\* question, the current question is still that question; and over the life of the
\* round no user is credited more attempts than it made.
C10_FailureDropsMessage ==
  /\ \A i \in Idx :
       (log[i].op = "raise" /\ log[i].prev \in StoragePcs) =>
         \A a \in Idx :
           (IsCallStart(a, i) /\ log[a].q # None) => log[i].q = log[a].q
  /\ \A u \in Callers : SumN(Upserts(u)) <= Cardinality(AttemptsBy(u))

(***************************************************************************)
(* The scoreboard claims are about steps: the step that ends a call of     *)
(* _show_scores, and what it sent.                                         *)
(***************************************************************************)
ScorePcs == {"_show_scores", "_post_scores"}
ScoreThreads == Callers \cup {Sched}
EndsScores(t) == pc[t] \in ScorePcs /\ pc'[t] \notin ScorePcs
\* the event the step added to the log
Added == log'[Len(log')]
Publications == {"post_reply", "post_message"}
SentScores(t) ==
  /\ log' # log
  /\ Added.op \in Publications
  /\ Added.prev = "scoreboard"
  /\ Added.th = t
\* the rows of the window of the call that ends
WindowRows(t) == IF pc[t] = "_show_scores" THEN Added.n ELSE frame[t].scores

\* C11: a scheduled scoreboard sends nothing when its window has no rows and one message
\* when it has some; a scoreboard asked for by a command sends one publication whatever
\* the window holds; a scoreboard is only ever sent by the step that ends the call.
C11_ScoreboardPublication ==
  [][\A t \in ScoreThreads :
       /\ EndsScores(t) => (SentScores(t) <=> ~(t = Sched /\ WindowRows(t) = 0))
       /\ SentScores(t) => EndsScores(t)
       /\ (pc[t] \in ScorePcs /\ pc'[t] # pc[t]) =>
            pc'[t] \in ScorePcs \cup {"idle", "done"}]_vars

\* the scheduler's job over an empty window ended silently and a command's scoreboard
\* over an empty window was sent
C11_Witness ==
  /\ pc[Sched] = "done"
  /\ \E i \in Idx :
       log[i].op = "get_timeframe_scores" /\ log[i].th = Sched /\ log[i].n = 0
  /\ \A i \in Idx : log[i].th # Sched \/ log[i].op \notin Publications
  /\ \E i \in Idx :
       /\ log[i].op \in Publications
       /\ log[i].th \in Callers
       /\ log[i].prev = "scoreboard"
       /\ log[i].n = 0

\* C12: a scoreboard asked for by a command is sent with the post-reply handler and
\* the payload of the message that asked for it, never with the post-message handler,
\* whatever the window holds.
C12_ScoreboardIsReply ==
  \A i \in Idx :
    (log[i].prev = "scoreboard" /\ log[i].th \in Callers) =>
      /\ log[i].op = "post_reply"
      /\ log[i].uid = log[i].th

\* C13: the scheduler's scoreboard never holds the engine lock and never waits for it (its
\* next step can be taken whoever holds the lock), and none of its steps changes the
\* lock, the current question or the attempts.
C13_ScheduledOutsideLock ==
  /\ [](lock # Sched)
  /\ [](pc[Sched] \in ScorePcs => ENABLED ScoreStep(Sched))
  /\ [][pc'[Sched] # pc[Sched] => UNCHANGED <<lock, current_question, attempts>>]_vars

\* the scheduler's scoreboard was queried and sent within one hold of the lock by a
\* handle_message call, which still holds it
C13_Witness ==
  \E i \in Idx : \E j \in Idx : \E k \in Idx :
    /\ i < j /\ j < k
    /\ log[i].op = "acquire"
    /\ log[i].th = lock
    /\ \A m \in Idx : m > i => log[m].op # "acquire"
    /\ log[j].op = "get_timeframe_scores" /\ log[j].th = Sched
    /\ log[k].op = "post_message" /\ log[k].th = Sched
    /\ current_question # None
    /\ attempts # <<>>

Aliases(k) == _commands[k].aliases
\* where each handler of the table starts
HandlerEntry ==
  [_command_exit |-> "_command_exit", _command_uptime |-> "_command_uptime",
   new |-> "_complete_question_round", alltime |-> "_show_scores",
   yesterday |-> "_show_scores", today |-> "_show_scores",
   _command_help |-> "_command_help"]
FirstMatch(cmd, k) ==
  /\ k \in 1..Len(_commands)
  /\ cmd \in Aliases(k)
  /\ \A j \in 1..(k - 1) : cmd \notin Aliases(j)
\* thread t takes a step (the end of the process is no step of its own)
Moves(t) == pc'[t] # pc[t] /\ pc'[t] # "terminated"

\* C14: a text that starts with the prefix goes to the dispatcher and is never recorded
\* as an attempt; the dispatcher runs the handler of the first entry one of whose
\* aliases equals the text after the prefix, and nothing else; when no alias equals it
\* the call returns with no reply and no change of the question, the attempts or the
\* store.
C14_CommandDispatch ==
  /\ [](\A i \in Idx : log[i].op = "attempt" => ~startswith(log[i].text, command_prefix))
  /\ [](\A i \in Idx : log[i].op = "command" => FirstMatch(Tail(log[i].text), log[i].n))
  /\ [][\A t \in Callers :
         /\ (pc[t] = "handle_message" /\ Moves(t)) =>
              (pc'[t] = "_handle_command" <=> startswith(frame[t].text, command_prefix))
         /\ (pc[t] = "_handle_command" /\ Moves(t)) =>
              LET cmd  == Tail(frame[t].text)
                  hits == {k \in 1..Len(_commands) : cmd \in Aliases(k)}
              IN  IF hits = {}
                  THEN /\ pc'[t] = "idle"
                       /\ result'[t] = "returned"
                       /\ UNCHANGED <<current_question, attempts, players, log>>
                  ELSE /\ \E k \in hits :
                            /\ FirstMatch(cmd, k)
                            /\ pc'[t] = HandlerEntry[_commands[k].handler]
                            /\ Added.op = "command" /\ Added.n = k /\ Added.th = t
                       /\ UNCHANGED <<current_question, attempts, players>>]_vars

\* a scoreboard command was dispatched; then a prefixed text that is no alias ("! new")
\* came and went
C14_Witness ==
  /\ \E i \in Idx : log[i].op = "command" /\ log[i].n = 4
  /\ log[Len(log)].op = "acquire"
  /\ log[Len(log)].text = T_new_padded
  /\ result[log[Len(log)].th] = "returned"
  /\ pc[log[Len(log)].th] = "idle"

Terminated == \E t \in Threads : pc[t] = "terminated"

\* C15: the process ends only on `exit` from the administrator and only after the
\* "ok bye" reply was sent with that message's payload; `exit` from anyone else sends no
\* reply, ends nothing and leaves the question, the attempts and the store as they were.
C15_ExitAdminOnly ==
  /\ [](Terminated =>
          /\ log # <<>>
          /\ log[Len(log)].op = "post_reply"
          /\ log[Len(log)].prev = "exit"
          /\ log[Len(log)].text = S_ok_bye
          /\ log[Len(log)].th = admin_uid
          /\ log[Len(log)].uid = admin_uid)
  /\ [](\A i \in Idx : log[i].prev = "exit" => log[i].th = admin_uid)
  /\ [][\A t \in Callers \ {admin_uid} :
         (pc[t] = "_command_exit" /\ Moves(t)) =>
           /\ pc'[t] = "idle"
           /\ result'[t] = "returned"
           /\ UNCHANGED <<current_question, attempts, players, log>>]_vars

\* another user's `exit` was dispatched and returned, then the administrator's ended
\* the process
C15_Witness ==
  /\ Terminated
  /\ \E i \in Idx :
       log[i].op = "command" /\ log[i].n = 1 /\ log[i].th # admin_uid
  /\ current_question # None

\* HH:MM:SS with the hours not wrapped: at least two digits each
HoursMinutesSeconds(n) ==
  LET h == n \div 3600
  IN  (IF h < 10 THEN <<"0">> ELSE <<>>) \o Decimal(h) \o <<":">>
        \o TwoDigits((n % 3600) \div 60) \o <<":">> \o TwoDigits(n % 60)

\* C16: the reply to `uptime` after n seconds is HH:MM:SS with HH = n div 3600 on at
\* least two digits, however large, and MM and SS on two digits.
C16_UptimeFormat ==
  \A i \in Idx :
    (log[i].op = "post_reply" /\ log[i].prev = "uptime") =>
      log[i].text = HoursMinutesSeconds(log[i].n)

\* the matcher as described, with one trimming (of the characters ws) in both tests
MatchesTrimmed(answer, correct_answer, count, ws) ==
  \E c \in _answer_variants(correct_answer) :
    \E g \in _answer_variants(answer) :
      /\ Len(strip(g, ws)) >= min(count, Len(c))
      /\ contains(c, strip(g, ws))

\* C17: _do_check_answer is true exactly when some variant of the answer, trimmed, is
\* at least min(match_character_count, length of the variant of the correct answer)
\* long and, trimmed the same way, is contained in that variant - taking for the
\* trimming either the removal of spaces or the removal of all whitespace.
C17_MatcherAsDescribed ==
  matcher.returned =>
    \E ws \in {{" "}, Whitespace} :
      matcher.result <=> MatchesTrimmed(matcher.answer, matcher.correct_answer,
                                        matcher.match_character_count, ws)

\* C18: a non-empty string matches itself whenever match_character_count is at most
\* its length.
C18_MatcherReflexive ==
  ( /\ matcher.returned
    /\ matcher.answer = matcher.correct_answer
    /\ matcher.answer # <<>>
    /\ matcher.match_character_count <= Len(matcher.answer) ) => matcher.result

\* " Paris " against itself with seven characters asked for
C18_Witness ==
  /\ matcher.returned
  /\ matcher.result
  /\ matcher.answer = <<" ", "P", "a", "r", "i", "s", " ">>
  /\ matcher.correct_answer = matcher.answer
  /\ matcher.match_character_count = 7

\* C19: with no current question a text that is no command records no attempt and
\* raises nothing, and a user whose only texts came then is never given a player
\* upsert by a later completion or `new`.
C19_IdleAttemptIgnored ==
  /\ \A i \in Idx : log[i].op = "attempt" => log[i].q # None
  /\ \A i \in Idx : log[i].op # "TypeError"
  /\ \A u \in Callers :
       Upserts(u) # {} => \E j \in AttemptsBy(u) : log[j].q # None

RoundState == <<current_question, attempts, players, log>>

\* C20: with a fair lock and operations that return, a handle_message call that waits
\* for the lock gets it, and a call that has it comes to its end and returns with the
\* lock released; while calls are in progress the round state changes only in steps of
\* the call that holds the lock, so that the calls take effect one after the other in
\* the order in which they got the lock.
C20_BurstIsQueued ==
  /\ \A t \in Callers : (pc[t] = "handle_message") ~> (lock = t)
  /\ \A t \in Callers :
       (lock = t) ~> (lock # t /\ pc[t] = "idle" /\ result[t] = "returned")
  /\ [][RoundState' # RoundState =>
         \/ \E t \in Callers : Moves(t) /\ (lock = t \/ lock' = t)
         \/ calls = 0 /\ Moves(Main)]_vars

\* a call waits for the lock while the other user's matching answer is completing the
\* round
C20_Witness ==
  \E t \in Callers : \E u \in Callers \ {t} :
    /\ pc[t] = "handle_message"
    /\ lock = u
    /\ pc[u] = "_player_attempt"
    /\ frame[u].winning_uid = u
====
